---------------------------- MODULE Spec2Model ----------------------------
(***************************************************************************)
(* A model of src/main.py: PharmacyDataProcessor (the three loaders, the   *)
(* two validators, calculate_metrics, analyze_chain_recommendations,       *)
(* analyze_common_quantities, save_results) and main().                    *)
(*                                                                         *)
(* Strings (npi, ndc, chain names, ids) are integers standing for the      *)
(* string of that rank in lexicographic order, so that Python's string     *)
(* comparison is integer comparison.  Floats are exact rationals; binary   *)
(* rounding error is not modelled.                                         *)
(***************************************************************************)
EXTENDS Integers, Sequences, FiniteSets, TLC

VARIABLES
    pharmacies,   \* self.pharmacies: npi -> chain (a function on the loaded npis)
    valid_npis,   \* self.valid_npis
    claims,       \* self.claims: the admitted claims, in admission order
    reverts,      \* self.reverts: the admitted reverts, in admission order
    result,       \* what the last method call returned, or that it raised
    divisors,     \* the quantities the last call used as a divisor of a price
    pc,           \* main(): the statement about to run ("api": main is not running)
    written,      \* main(): the output files save_results has written
    dirs_exist    \* the file system: which input directories exist

vars == <<pharmacies, valid_npis, claims, reverts, result, divisors, pc,
          written, dirs_exist>>

-----------------------------------------------------------------------------
(* Bounds of the model.                                                    *)

MaxFiles == 2      \* files in one input directory
MaxClaims == 3     \* admitted claims held by the processor (Spec, SpecMain)
MaxInputs == 3     \* claims drawn as input of an analysis (SpecAnalysis)
MaxReverts == 3    \* reverts drawn as input of calculate_metrics (SpecAnalysis)
MaxExtra == 2      \* claims following the distinct-quantity prefix (SpecAnalysis)
MaxDistinct == 6   \* longest distinct-quantity prefix (SpecAnalysis)

-----------------------------------------------------------------------------
(* Generic sequence helpers.                                               *)

Range(s) == {s[i] : i \in DOMAIN s}

SeqsUpTo(S, n) == UNION {[1..k -> S] : k \in 0..n}

Min(a, b) == IF a <= b THEN a ELSE b

Abs(x) == IF x < 0 THEN -x ELSE x

-----------------------------------------------------------------------------
(* JSON scalars and Python's float() and int() on them.                    *)
(* t = "int": a JSON integer v, "intstr": the string of the integer v,     *)
(* "real": the JSON real v/2, "realstr": the string of the real v/2,       *)
(* "text": a non-numeric string, "null": JSON null, "infinity": the JSON   *)
(* literal Infinity.                                                       *)

JInt(v) == [t |-> "int", v |-> v]
JIntStr(v) == [t |-> "intstr", v |-> v]
JReal(h) == [t |-> "real", v |-> h]
JRealStr(h) == [t |-> "realstr", v |-> h]
JText == [t |-> "text", v |-> 0]
JNull == [t |-> "null", v |-> 0]
JInfinity == [t |-> "infinity", v |-> 0]

\* float(x): "ok" with the value in halves, or the exception raised.  (The
\* inputs of the model hold Infinity as a quantity only, where int() raises
\* before the value is used.)
PyFloat(x) ==
    CASE x.t \in {"int", "intstr"} -> [out |-> "ok", v |-> 2 * x.v]
      [] x.t \in {"real", "realstr", "infinity"} -> [out |-> "ok", v |-> x.v]
      [] x.t = "text" -> [out |-> "ValueError", v |-> 0]
      [] OTHER -> [out |-> "TypeError", v |-> 0]

\* int(x): "ok" with the integer (a real is truncated toward zero), or the
\* exception raised.
PyInt(x) ==
    CASE x.t \in {"int", "intstr"} -> [out |-> "ok", v |-> x.v]
      [] x.t = "real" ->
            [out |-> "ok",
             v |-> IF x.v >= 0 THEN x.v \div 2 ELSE -((-x.v) \div 2)]
      [] x.t = "infinity" -> [out |-> "OverflowError", v |-> 0]
      [] x.t \in {"realstr", "text"} -> [out |-> "ValueError", v |-> 0]
      [] OTHER -> [out |-> "TypeError", v |-> 0]

-----------------------------------------------------------------------------
(* Records of the input files.                                             *)

ClaimFields == {"id", "npi", "ndc", "price", "quantity", "timestamp"}
RevertFields == {"id", "claim_id", "timestamp"}

\* A JSON object holding a claim with the fields `has`.
ClaimObject(has, id, npi, ndc, price, quantity) ==
    [kind |-> "object", has |-> has, id |-> id, npi |-> npi, ndc |-> ndc,
     price |-> price, quantity |-> quantity]

Claim(id, npi, ndc, price, quantity) ==
    ClaimObject(ClaimFields, id, npi, ndc, price, quantity)

\* A JSON value that is no object (a number): `field not in claim` raises.
ScalarRecord ==
    [kind |-> "number", has |-> {}, id |-> 0, npi |-> 0, ndc |-> 0,
     price |-> JNull, quantity |-> JNull]

RevertObject(has, id, claim_id) ==
    [kind |-> "object", has |-> has, id |-> id, claim_id |-> claim_id]

Revert(id, claim_id) == RevertObject(RevertFields, id, claim_id)

ScalarRevert == [kind |-> "number", has |-> {}, id |-> 0, claim_id |-> 0]

-----------------------------------------------------------------------------
(* The validators.                                                         *)

\* _validate_claim: "True", "False", or "raise" when an exception leaves it
\* (a record that is no container, or int() overflowing on Infinity).
_validate_claim(claim) ==
    IF claim.kind # "object" THEN "raise"
    ELSE IF ~(ClaimFields \subseteq claim.has) THEN "False"
    ELSE IF PyFloat(claim.price).out \in {"ValueError", "TypeError"} THEN "False"
    ELSE IF PyInt(claim.quantity).out \in {"ValueError", "TypeError"} THEN "False"
    ELSE IF PyInt(claim.quantity).out # "ok" THEN "raise"
    ELSE "True"

\* _validate_revert with the missing `return True` supplied.
_validate_revert_returning(revert) ==
    IF revert.kind # "object" THEN "raise"
    ELSE IF ~(RevertFields \subseteq revert.has) THEN "False"
    ELSE "True"

\* _validate_revert: "False" on a missing field, else it falls off its end
\* and returns None; "raise" on a record that is no container.
_validate_revert(revert) ==
    IF revert.kind # "object" THEN "raise"
    ELSE IF ~(RevertFields \subseteq revert.has) THEN "False"
    ELSE "None"

\* Python truthiness of a validator's return value.
Truthy(v) == v = "True"

-----------------------------------------------------------------------------
(* The pharmacy loader.                                                    *)

\* A CSV cell: a string (its stripped text, 0 for the empty string, and
\* whether whitespace surrounds it) or None (a row shorter than the header).
Cell(text, pad) == [t |-> "text", text |-> text, pad |-> pad]
NoneCell == [t |-> "none", text |-> 0, pad |-> FALSE]

\* str.strip()
Strip(cell) == cell.text

Row(npi, chain) == [npi |-> npi, chain |-> chain]

\* A CSV file: whether open() succeeds, the header's columns, the rows.
CsvFile(readable, columns, rows) ==
    [readable |-> readable, columns |-> columns, rows |-> rows]

\* self.pharmacies[npi] = chain
DictSet(d, k, v) == [x \in DOMAIN d \cup {k} |-> IF x = k THEN v ELSE d[x]]

\* The rows of one file from row i on; a None cell raises out of the loop.
RECURSIVE LoadPharmacyRows(_, _, _)
LoadPharmacyRows(st, f, i) ==
    IF i > Len(f.rows) THEN st
    ELSE LET row == f.rows[i] IN
         IF ~({"npi", "chain"} \subseteq f.columns)
         THEN LoadPharmacyRows(st, f, i + 1)
         ELSE IF row.npi.t = "none" \/ row.chain.t = "none" THEN st
         ELSE LET npi == Strip(row.npi)
                  chain == Strip(row.chain)
              IN IF npi # 0 /\ chain # 0
                 THEN LoadPharmacyRows(
                          [pharmacies |-> DictSet(st.pharmacies, npi, chain),
                           valid_npis |-> st.valid_npis \cup {npi}], f, i + 1)
                 ELSE LoadPharmacyRows(st, f, i + 1)

\* load_pharmacies' loop over the files of an existing directory.
RECURSIVE LoadPharmacyFiles(_, _, _)
LoadPharmacyFiles(st, dir, k) ==
    IF k > Len(dir) THEN st
    ELSE LoadPharmacyFiles(
             IF dir[k].readable THEN LoadPharmacyRows(st, dir[k], 1) ELSE st,
             dir, k + 1)

-----------------------------------------------------------------------------
(* The claims and reverts loaders.                                         *)

\* A JSON file: json.load raises ("error"), or yields a list or one value.
JsonError == [parse |-> "error", records |-> <<>>]
JsonList(records) == [parse |-> "list", records |-> records]
JsonValue(record) == [parse |-> "value", records |-> <<record>>]

\* claims_batch / reverts_batch
Batch(file) == file.records

\* The inner loop of load_claims without the test of the npi.
RECURSIVE AdmitClaimsAnyNpi(_, _, _, _)
AdmitClaimsAnyNpi(st, valid, batch, i) ==
    IF i > Len(batch) THEN st
    ELSE LET v == _validate_claim(batch[i]) IN
         IF v = "raise" THEN [st EXCEPT !.raised = TRUE]
         ELSE IF Truthy(v)
              THEN AdmitClaimsAnyNpi([st EXCEPT !.store = Append(@, batch[i])],
                                     valid, batch, i + 1)
              ELSE AdmitClaimsAnyNpi(st, valid, batch, i + 1)

\* The inner loop of load_claims from record i on.  st.store is self.claims;
\* st.raised: an exception left the loop (what was appended before it stays
\* appended); st.unknown counts the valid claims dropped for their npi.
RECURSIVE AdmitClaims(_, _, _, _)
AdmitClaims(st, valid, batch, i) ==
    IF i > Len(batch) THEN st
    ELSE LET v == _validate_claim(batch[i]) IN
         IF v = "raise" THEN [st EXCEPT !.raised = TRUE]
         ELSE IF Truthy(v)
              THEN IF batch[i].npi \in valid
                   THEN AdmitClaims([st EXCEPT !.store = Append(@, batch[i])],
                                    valid, batch, i + 1)
                   ELSE AdmitClaims([st EXCEPT !.unknown = @ + 1],
                                    valid, batch, i + 1)
              ELSE AdmitClaims(st, valid, batch, i + 1)

\* What one file's pass did: error: "Error reading ... file" was logged;
\* records: the length of the batch; admitted: how many of them the pass
\* appended; unknown: how many valid claims it dropped for their npi.
FileLog(error, records, admitted, unknown) ==
    [error |-> error, records |-> records, admitted |-> admitted,
     unknown |-> unknown]

\* The body of load_claims' loop for one file: the store and the log after it.
LoadClaimFile(st, valid, file) ==
    IF file.parse = "error"
    THEN [store |-> st.store, log |-> Append(st.log, FileLog(TRUE, 0, 0, 0))]
    ELSE LET r == AdmitClaims([store |-> st.store, raised |-> FALSE, unknown |-> 0],
                              valid, Batch(file), 1)
         IN [store |-> r.store,
             log |-> Append(st.log,
                            FileLog(r.raised, Len(Batch(file)),
                                    Len(r.store) - Len(st.store), r.unknown))]

\* load_claims' loop over the first k files of an existing directory.
RECURSIVE LoadClaimFiles(_, _, _, _)
LoadClaimFiles(store, valid, dir, k) ==
    IF k = 0 THEN [store |-> store, log |-> <<>>]
    ELSE LoadClaimFile(LoadClaimFiles(store, valid, dir, k - 1), valid, dir[k])

\* The inner loop of load_reverts from record i on.
RECURSIVE AdmitReverts(_, _, _)
AdmitReverts(st, batch, i) ==
    IF i > Len(batch) THEN st
    ELSE LET v == _validate_revert(batch[i]) IN
         IF v = "raise" THEN [st EXCEPT !.raised = TRUE]
         ELSE IF Truthy(v)
              THEN AdmitReverts([st EXCEPT !.store = Append(@, batch[i])],
                                batch, i + 1)
              ELSE AdmitReverts(st, batch, i + 1)

\* The body of load_reverts' loop for one file.
LoadRevertFile(st, file) ==
    IF file.parse = "error"
    THEN [store |-> st.store, log |-> Append(st.log, FileLog(TRUE, 0, 0, 0))]
    ELSE LET r == AdmitReverts([store |-> st.store, raised |-> FALSE],
                               Batch(file), 1)
         IN [store |-> r.store,
             log |-> Append(st.log,
                            FileLog(r.raised, Len(Batch(file)),
                                    Len(r.store) - Len(st.store), 0))]

\* load_reverts' loop over the first k files of an existing directory.
RECURSIVE LoadRevertFiles(_, _, _)
LoadRevertFiles(store, dir, k) ==
    IF k = 0 THEN [store |-> store, log |-> <<>>]
    ELSE LoadRevertFile(LoadRevertFiles(store, dir, k - 1), dir[k])

-----------------------------------------------------------------------------
(* Arithmetic of the analyses.  A float is a rational [n, d] with d > 0;   *)
(* the result of a numpy division may also be inf, -inf or nan.            *)

Rat(n, d) == [k |-> "fin", n |-> n, d |-> d]
PosInf == [k |-> "inf", n |-> 1, d |-> 0]
NegInf == [k |-> "-inf", n |-> -1, d |-> 0]
NaN == [k |-> "nan", n |-> 0, d |-> 0]

RECURSIVE Gcd(_, _)
Gcd(a, b) == IF b = 0 THEN a ELSE Gcd(b, a % b)

\* n / d (d > 0) in lowest terms.
Reduced(n, d) == LET g == Gcd(Abs(n), d) IN Rat(n \div g, d \div g)

RatAdd(a, b) == Reduced(a.n * b.d + b.n * a.d, a.d * b.d)

RECURSIVE RatSum(_, _)
RatSum(s, i) == IF i > Len(s) THEN Rat(0, 1) ELSE RatAdd(s[i], RatSum(s, i + 1))

\* round(x, 2) of a finite x, in hundredths: the nearest, ties to even.
Round2(x) ==
    LET num == 100 * Abs(x.n)
        q == num \div x.d
        r == num % x.d
        up == 2 * r > x.d \/ (2 * r = x.d /\ q % 2 = 1)
        mag == IF up THEN q + 1 ELSE q
    IN IF x.n < 0 THEN -mag ELSE mag

\* round(x, 2) of any float: inf and nan round to themselves.
RoundExt(x) == IF x.k = "fin" THEN [k |-> "fin", cents |-> Round2(x)]
               ELSE [k |-> x.k, cents |-> 0]

\* numpy's price / quantity (price in halves, quantity an integer).
NumpyDivide(price, quantity) ==
    IF quantity > 0 THEN Rat(price, 2 * quantity)
    ELSE IF quantity < 0 THEN Rat(-price, -2 * quantity)
    ELSE IF price > 0 THEN PosInf
    ELSE IF price < 0 THEN NegInf
    ELSE NaN

\* a < b on floats (IEEE: false when either is nan).
FloatLess(a, b) ==
    CASE a.k = "nan" \/ b.k = "nan" -> FALSE
      [] a.k = "-inf" -> b.k # "-inf"
      [] a.k = "inf" -> FALSE
      [] b.k = "-inf" -> FALSE
      [] b.k = "inf" -> TRUE
      [] OTHER -> a.n * b.d < b.n * a.d

\* The order of sort_values: ascending, nan last.
SortsBefore(a, b) ==
    IF a.k = "nan" THEN FALSE
    ELSE IF b.k = "nan" THEN TRUE
    ELSE FloatLess(a, b)

\* Series.mean() of a group: nan is skipped; inf absorbs; inf + -inf is nan.
SeriesMean(s) ==
    LET idx == {i \in DOMAIN s : s[i].k # "nan"}
        kinds == {s[i].k : i \in idx}
        fin == SelectSeq(s, LAMBDA x : x.k = "fin")
        total == RatSum(fin, 1)
    IN IF idx = {} THEN NaN
       ELSE IF {"inf", "-inf"} \subseteq kinds THEN NaN
       ELSE IF "inf" \in kinds THEN PosInf
       ELSE IF "-inf" \in kinds THEN NegInf
       ELSE Rat(total.n, total.d * Len(fin))

-----------------------------------------------------------------------------
(* Sorting.                                                                *)

\* Tuple comparison of two (string, string) keys.
KeyLess(a, b) == a[1] < b[1] \/ (a[1] = b[1] /\ a[2] < b[2])

\* list.sort(key=...) and a stable sort by key: insertion after the last
\* element whose key is not greater.
RECURSIVE InsertByKey(_, _)
InsertByKey(sorted, x) ==
    IF sorted = <<>> THEN <<x>>
    ELSE IF KeyLess(x.key, sorted[Len(sorted)].key)
         THEN Append(InsertByKey(SubSeq(sorted, 1, Len(sorted) - 1), x),
                     sorted[Len(sorted)])
         ELSE Append(sorted, x)

RECURSIVE SortByKey(_, _)
SortByKey(s, n) ==
    IF n = 0 THEN <<>> ELSE InsertByKey(SortByKey(s, n - 1), s[n])

\* The values of a sequence in first-seen order, without repeats.
RECURSIVE Unique(_, _)
Unique(s, n) ==
    IF n = 0 THEN <<>>
    ELSE LET u == Unique(s, n - 1) IN
         IF s[n] \in Range(u) THEN u ELSE Append(u, s[n])

\* DataFrame.head(n) / Series.head(n)
head(s, n) == SubSeq(s, 1, Min(n, Len(s)))

-----------------------------------------------------------------------------
(* calculate_metrics                                                       *)

\* {revert["claim_id"] for revert in self.reverts}
reverted_claim_ids(rv) == {rv[i].claim_id : i \in DOMAIN rv}

\* price / quantity if quantity > 0 else 0
unit_price(price, quantity) ==
    IF quantity > 0 THEN Rat(price, 2 * quantity) ELSE Rat(0, 1)

\* The position of `key` in the dict `metrics` (insertion order), 0 if absent.
KeyIndex(metrics, key) ==
    IF \E i \in DOMAIN metrics : metrics[i].key = key
    THEN CHOOSE i \in DOMAIN metrics : metrics[i].key = key
    ELSE 0

\* The defaultdict's entry for a new key.
NewEntry(key) ==
    [key |-> key, fills |-> 0, reverted |-> 0, total_price |-> 0, prices |-> <<>>]

\* One pass of the loop over self.claims with `fills = 1` for `fills += 1`.
AccumulateAssign(metrics, claim, ids) ==
    LET key == <<claim.npi, claim.ndc>>
        price == PyFloat(claim.price).v
        quantity == PyInt(claim.quantity).v
        at == KeyIndex(metrics, key)
        m == IF at = 0 THEN Append(metrics, NewEntry(key)) ELSE metrics
        i == IF at = 0 THEN Len(m) ELSE at
        e == m[i]
    IN [m EXCEPT ![i] =
           [key |-> key,
            fills |-> 1,
            reverted |-> IF claim.id \in ids THEN e.reverted + 1 ELSE e.reverted,
            total_price |-> e.total_price + price,
            prices |-> Append(e.prices, unit_price(price, quantity))]]

\* One pass of the loop over self.claims.
Accumulate(metrics, claim, ids) ==
    LET key == <<claim.npi, claim.ndc>>
        price == PyFloat(claim.price).v
        quantity == PyInt(claim.quantity).v
        at == KeyIndex(metrics, key)
        m == IF at = 0 THEN Append(metrics, NewEntry(key)) ELSE metrics
        i == IF at = 0 THEN Len(m) ELSE at
        e == m[i]
    IN [m EXCEPT ![i] =
           [key |-> key,
            fills |-> e.fills + 1,
            reverted |-> IF claim.id \in ids THEN e.reverted + 1 ELSE e.reverted,
            total_price |-> e.total_price + price,
            prices |-> Append(e.prices, unit_price(price, quantity))]]

\* The dict `metrics` after the first n claims.
RECURSIVE Grouped(_, _, _)
Grouped(cl, ids, n) ==
    IF n = 0 THEN <<>> ELSE Accumulate(Grouped(cl, ids, n - 1), cl[n], ids)

\* The output record of one key; prices are reported in hundredths.
MetricRecord(e) ==
    LET total == RatSum(e.prices, 1)
        avg_price == IF e.prices # <<>>
                     THEN Rat(total.n, total.d * Len(e.prices))
                     ELSE Rat(0, 1)
    IN [npi |-> e.key[1], ndc |-> e.key[2], fills |-> e.fills,
        reverted |-> e.reverted, avg_price |-> Round2(avg_price),
        total_price |-> Round2(Rat(e.total_price, 2))]

\* `results` with `reverted` counting the reverts that name a claim of the
\* key, not the claims of the key that are reverted.
MetricRecordsPerRevert(cl, rv) ==
    LET metrics == Grouped(cl, {}, Len(cl))
        ids(key) == {cl[i].id : i \in {j \in DOMAIN cl : <<cl[j].npi, cl[j].ndc>> = key}}
    IN [i \in DOMAIN metrics |->
           [MetricRecord(metrics[i]) EXCEPT
               !.reverted = Cardinality({j \in DOMAIN rv :
                                rv[j].claim_id \in ids(metrics[i].key)})]]

\* `results` before results.sort: one record per key, in the dict's order.
MetricRecords(cl, rv) ==
    LET metrics == Grouped(cl, reverted_claim_ids(rv), Len(cl))
    IN [i \in DOMAIN metrics |-> MetricRecord(metrics[i])]

\* results.sort(key=lambda x: x["ndc"]): the npi left out of the key.
SortMetricsByNdc(results) ==
    LET keyed == [i \in DOMAIN results |->
                     [key |-> <<results[i].ndc, 0>>, val |-> results[i]]]
        sorted == SortByKey(keyed, Len(keyed))
    IN [i \in DOMAIN sorted |-> sorted[i].val]

\* results.sort(key=lambda x: (x["npi"], x["ndc"]))
SortMetrics(results) ==
    LET keyed == [i \in DOMAIN results |->
                     [key |-> <<results[i].npi, results[i].ndc>>,
                      val |-> results[i]]]
        sorted == SortByKey(keyed, Len(keyed))
    IN [i \in DOMAIN sorted |-> sorted[i].val]

calculate_metrics(cl, rv) == SortMetrics(MetricRecords(cl, rv))

\* The quantities calculate_metrics divides a price by.
MetricDivisors(cl) ==
    {PyInt(cl[i].quantity).v : i \in {j \in DOMAIN cl : PyInt(cl[j].quantity).v > 0}}

-----------------------------------------------------------------------------
(* analyze_chain_recommendations                                           *)

TopChains == 2

\* claims_data: one row per claim whose npi is a key of self.pharmacies.
ChainRows(cl, ph) ==
    LET known == SelectSeq(cl, LAMBDA c : c.npi \in DOMAIN ph)
    IN [i \in DOMAIN known |->
           [ndc |-> known[i].ndc, chain |-> ph[known[i].npi],
            price |-> PyFloat(known[i].price).v,
            quantity |-> PyInt(known[i].quantity).v]]

\* df["unit_price"] = df["price"] / df["quantity"]
UnitPrices(rows) ==
    [i \in DOMAIN rows |-> NumpyDivide(rows[i].price, rows[i].quantity)]

\* The unit prices of the rows of one (ndc, chain) group, in row order.
GroupPrices(rows, ndc, chain) ==
    LET up == UnitPrices(rows)
        at == SelectSeq([i \in DOMAIN rows |-> i],
                        LAMBDA i : rows[i].ndc = ndc /\ rows[i].chain = chain)
    IN [j \in DOMAIN at |-> up[at[j]]]

\* df.groupby(["ndc", "chain"])["unit_price"].mean().reset_index(): one row
\* per group, the groups in ascending (ndc, chain) order.
chain_avg(rows) ==
    LET keys == Unique([i \in DOMAIN rows |-> <<rows[i].ndc, rows[i].chain>>],
                       Len(rows))
        keyed == [i \in DOMAIN keys |-> [key |-> keys[i], val |-> keys[i]]]
        sorted == SortByKey(keyed, Len(keyed))
    IN [i \in DOMAIN sorted |->
           [ndc |-> sorted[i].key[1], chain |-> sorted[i].key[2],
            avg_price |-> SeriesMean(GroupPrices(rows, sorted[i].key[1],
                                                 sorted[i].key[2]))]]

\* sort_values("avg_price") of a frame: ascending, nan last.  Rows of equal
\* price are kept in row order; pandas does not fix their order, and no
\* property below depends on it.
RECURSIVE InsertByPrice(_, _)
InsertByPrice(sorted, x) ==
    IF sorted = <<>> THEN <<x>>
    ELSE IF SortsBefore(x.avg_price, sorted[Len(sorted)].avg_price)
         THEN Append(InsertByPrice(SubSeq(sorted, 1, Len(sorted) - 1), x),
                     sorted[Len(sorted)])
         ELSE Append(sorted, x)

RECURSIVE SortByPrice(_, _)
SortByPrice(s, n) ==
    IF n = 0 THEN <<>> ELSE InsertByPrice(SortByPrice(s, n - 1), s[n])

\* ndc_data with the sort_values left out.
ndc_data_unsorted(avg, ndc) ==
    head(SelectSeq(avg, LAMBDA r : r.ndc = ndc), TopChains)

\* chain_avg[chain_avg["ndc"] == ndc].sort_values("avg_price").head(2)
ndc_data(avg, ndc) ==
    LET of_ndc == SelectSeq(avg, LAMBDA r : r.ndc = ndc)
    IN head(SortByPrice(of_ndc, Len(of_ndc)), TopChains)

\* One drug's record: its chain_list.
ChainRecord(avg, ndc) ==
    LET rows == ndc_data(avg, ndc)
    IN [ndc |-> ndc,
        chain |-> [i \in DOMAIN rows |->
                      [name |-> rows[i].chain,
                       avg_price |-> RoundExt(rows[i].avg_price)]]]

\* results.sort(key=lambda x: x["ndc"]) of either analysis.
SortByNdc(results) ==
    LET keyed == [i \in DOMAIN results |->
                     [key |-> <<results[i].ndc, 0>>, val |-> results[i]]]
        sorted == SortByKey(keyed, Len(keyed))
    IN [i \in DOMAIN sorted |-> sorted[i].val]

analyze_chain_recommendations(cl, ph) ==
    LET rows == ChainRows(cl, ph)
        avg == chain_avg(rows)
        ndcs == Unique([i \in DOMAIN avg |-> avg[i].ndc], Len(avg))
    IN IF rows = <<>> THEN <<>>
       ELSE SortByNdc([i \in DOMAIN ndcs |-> ChainRecord(avg, ndcs[i])])

\* The quantities analyze_chain_recommendations divides a price by.
ChainDivisors(cl, ph) ==
    LET rows == ChainRows(cl, ph) IN {rows[i].quantity : i \in DOMAIN rows}

-----------------------------------------------------------------------------
(* analyze_common_quantities                                               *)

TopQuantities == 5

\* claims_data: one row per claim whose npi is a key of self.pharmacies;
\* the quantity is float(claim["quantity"]), in halves.
QuantityRows(cl, ph) ==
    LET known == SelectSeq(cl, LAMBDA c : c.npi \in DOMAIN ph)
    IN [i \in DOMAIN known |->
           [ndc |-> known[i].ndc, quantity |-> PyFloat(known[i].quantity).v]]

\* value_counts() in ascending order of count.
value_counts_ascending(qs) ==
    LET vals == Unique(qs, Len(qs))
        keyed == [i \in DOMAIN vals |->
                     [key |-> <<Cardinality({j \in DOMAIN qs : qs[j] = vals[i]}), 0>>,
                      val |-> vals[i]]]
    IN SortByKey(keyed, Len(keyed))

\* Series.value_counts(): the distinct values with their counts, by
\* descending count.  Values of equal count are kept in first-seen order;
\* pandas does not fix their order, and no property below depends on it.
value_counts(qs) ==
    LET vals == Unique(qs, Len(qs))
        keyed == [i \in DOMAIN vals |->
                     [key |-> <<-Cardinality({j \in DOMAIN qs : qs[j] = vals[i]}), 0>>,
                      val |-> vals[i]]]
    IN SortByKey(keyed, Len(keyed))

\* One drug's record: quantity_counts.index.tolist() of the top 5.
QuantityRecord(rows, ndc) ==
    LET of_ndc == SelectSeq(rows, LAMBDA r : r.ndc = ndc)
        quantity_counts == head(value_counts([i \in DOMAIN of_ndc |-> of_ndc[i].quantity]),
                                TopQuantities)
    IN [ndc |-> ndc,
        most_prescribed_quantity |->
            [i \in DOMAIN quantity_counts |-> quantity_counts[i].val]]

analyze_common_quantities(cl, ph) ==
    LET rows == QuantityRows(cl, ph)
        ndcs == Unique([i \in DOMAIN rows |-> rows[i].ndc], Len(rows))
    IN IF rows = <<>> THEN <<>>
       ELSE SortByNdc([i \in DOMAIN ndcs |-> QuantityRecord(rows, ndcs[i])])

-----------------------------------------------------------------------------
(* The inputs of the model.                                                *)

DirNames == {"pharmacy", "claims", "reverts"}

\* Pharmacy files: one that cannot be read; one with a blank npi, npi 1 in
\* chain 1, then a short row and a row that is never reached; npi 2 in chain
\* 2 and npi 1 moved to chain 2 (cells padded with whitespace); one without
\* the chain column.
PharmacyFiles ==
    { CsvFile(FALSE, {}, <<>>),
      CsvFile(TRUE, {"npi", "chain"},
              <<Row(Cell(0, TRUE), Cell(1, FALSE)), Row(Cell(1, FALSE), Cell(1, FALSE)),
                Row(Cell(2, FALSE), NoneCell), Row(Cell(2, FALSE), Cell(1, FALSE))>>),
      CsvFile(TRUE, {"npi", "chain"},
              <<Row(Cell(2, TRUE), Cell(2, FALSE)), Row(Cell(1, FALSE), Cell(2, TRUE))>>),
      CsvFile(TRUE, {"npi"}, <<Row(Cell(2, FALSE), Cell(1, FALSE))>>) }

PharmacyDirs == SeqsUpTo(PharmacyFiles, MaxFiles)

\* Claims: two well-formed ones, of the keys (1, 2) and (2, 1), one of an npi
\* no pharmacy file holds, and malformed ones.
ClaimA == Claim(1, 1, 2, JIntStr(3), JIntStr(2))
ClaimB == Claim(2, 2, 1, JReal(5), JReal(3))
ClaimUnknownNpi == Claim(4, 3, 1, JInt(2), JInt(1))
ClaimNoTimestamp == ClaimObject(ClaimFields \ {"timestamp"}, 5, 1, 1, JInt(2), JInt(1))
ClaimBadPrice == Claim(6, 1, 1, JText, JInt(1))
ClaimBadQuantity == Claim(7, 1, 1, JInt(2), JRealStr(3))
ClaimOverflow == Claim(8, 1, 1, JInt(2), JInfinity)

ClaimFiles ==
    { JsonError,
      JsonValue(ClaimA),
      JsonList(<<ClaimB, ScalarRecord, ClaimA>>),
      JsonList(<<ClaimA, ClaimOverflow, ClaimB>>),
      JsonList(<<ClaimNoTimestamp, ClaimUnknownNpi, ClaimBadPrice,
                 ClaimBadQuantity, ClaimB, ClaimA>>) }

ClaimDirs == SeqsUpTo(ClaimFiles, MaxFiles)

RevertFiles ==
    { JsonError,
      JsonValue(Revert(1, 1)),
      JsonList(<<Revert(1, 1), Revert(2, 1), Revert(3, 9)>>),
      JsonList(<<RevertObject(RevertFields \ {"timestamp"}, 4, 2), Revert(5, 2),
                 ScalarRevert, Revert(6, 2)>>) }

RevertDirs == SeqsUpTo(RevertFiles, MaxFiles)

-----------------------------------------------------------------------------
(* The methods as steps.  `result` holds the call, whether it raised, the   *)
(* value it returned and, for load_claims and load_reverts, how many files *)
(* the directory listed and what each file's pass did.                     *)

Returned(op, val) ==
    [op |-> op, raised |-> FALSE, val |-> val, listed |-> 0, log |-> <<>>]
Loaded(op, dir, log) ==
    [op |-> op, raised |-> FALSE, val |-> <<>>, listed |-> Len(dir), log |-> log]
Raised(op) ==
    [op |-> op, raised |-> TRUE, val |-> <<>>, listed |-> 0, log |-> <<>>]

\* load_pharmacies(pharmacy_dir) on a directory holding the files `dir`.
load_pharmacies(dir) ==
    /\ IF dirs_exist["pharmacy"]
       THEN LET st == LoadPharmacyFiles(
                          [pharmacies |-> pharmacies, valid_npis |-> valid_npis],
                          dir, 1)
            IN /\ pharmacies' = st.pharmacies
               /\ valid_npis' = st.valid_npis
               /\ result' = Returned("load_pharmacies", <<>>)
       ELSE /\ result' = Raised("load_pharmacies")
            /\ UNCHANGED <<pharmacies, valid_npis>>
    /\ divisors' = {}
    /\ UNCHANGED <<claims, reverts, written, dirs_exist>>

\* load_claims without the test that the directory exists: the glob of a
\* missing directory yields no file.
load_claims_unchecked(dir) ==
    /\ LET st == LoadClaimFiles(claims, valid_npis,
                                IF dirs_exist["claims"] THEN dir ELSE <<>>,
                                IF dirs_exist["claims"] THEN Len(dir) ELSE 0)
       IN /\ Len(st.store) <= MaxClaims
          /\ claims' = st.store
          /\ result' = Loaded("load_claims", dir, st.log)
    /\ divisors' = {}
    /\ UNCHANGED <<pharmacies, valid_npis, reverts, written, dirs_exist>>

\* load_claims(claims_dir) on a directory holding the files `dir`.
load_claims(dir) ==
    /\ IF dirs_exist["claims"]
       THEN LET st == LoadClaimFiles(claims, valid_npis, dir, Len(dir))
            IN /\ Len(st.store) <= MaxClaims
               /\ claims' = st.store
               /\ result' = Loaded("load_claims", dir, st.log)
       ELSE /\ result' = Raised("load_claims")
            /\ UNCHANGED claims
    /\ divisors' = {}
    /\ UNCHANGED <<pharmacies, valid_npis, reverts, written, dirs_exist>>

\* load_reverts(reverts_dir) on a directory holding the files `dir`.
load_reverts(dir) ==
    /\ IF dirs_exist["reverts"]
       THEN LET st == LoadRevertFiles(reverts, dir, Len(dir))
            IN /\ Len(st.store) <= MaxReverts
               /\ reverts' = st.store
               /\ result' = Loaded("load_reverts", dir, st.log)
       ELSE /\ result' = Raised("load_reverts")
            /\ UNCHANGED reverts
    /\ divisors' = {}
    /\ UNCHANGED <<pharmacies, valid_npis, claims, written, dirs_exist>>

CallCalculateMetrics ==
    /\ result' = Returned("calculate_metrics", calculate_metrics(claims, reverts))
    /\ divisors' = MetricDivisors(claims)
    /\ UNCHANGED <<pharmacies, valid_npis, claims, reverts, written, dirs_exist>>

CallAnalyzeChains ==
    /\ result' = Returned("analyze_chain_recommendations",
                          analyze_chain_recommendations(claims, pharmacies))
    /\ divisors' = ChainDivisors(claims, pharmacies)
    /\ UNCHANGED <<pharmacies, valid_npis, claims, reverts, written, dirs_exist>>

CallAnalyzeQuantities ==
    /\ result' = Returned("analyze_common_quantities",
                          analyze_common_quantities(claims, pharmacies))
    /\ divisors' = {}
    /\ UNCHANGED <<pharmacies, valid_npis, claims, reverts, written, dirs_exist>>

\* save_results(results, output_file)
save_results(results, output_file) ==
    /\ written' = written \cup {[file |-> output_file, content |-> results]}
    /\ UNCHANGED <<pharmacies, valid_npis, claims, reverts, result, divisors,
                   dirs_exist>>

-----------------------------------------------------------------------------
(* Spec: a processor whose methods are called in any order, the three      *)
(* input directories existing.                                             *)

NoResult == Returned("__init__", <<>>)

EmptyProcessor ==
    /\ pharmacies = <<>>
    /\ valid_npis = {}
    /\ claims = <<>>
    /\ reverts = <<>>
    /\ result = NoResult
    /\ divisors = {}
    /\ written = {}

Init ==
    /\ EmptyProcessor
    /\ pc = "api"
    /\ dirs_exist = [d \in DirNames |-> TRUE]

LoadPharmacies == \E dir \in PharmacyDirs : load_pharmacies(dir) /\ UNCHANGED pc

LoadClaims == \E dir \in ClaimDirs : load_claims(dir) /\ UNCHANGED pc

LoadReverts == \E dir \in RevertDirs : load_reverts(dir) /\ UNCHANGED pc

CalculateMetrics == CallCalculateMetrics /\ UNCHANGED pc

AnalyzeChains == CallAnalyzeChains /\ UNCHANGED pc

AnalyzeQuantities == CallAnalyzeQuantities /\ UNCHANGED pc

Next ==
    \/ LoadPharmacies
    \/ LoadClaims
    \/ LoadReverts
    \/ CalculateMetrics
    \/ AnalyzeChains
    \/ AnalyzeQuantities

Spec == Init /\ [][Next]_vars

-----------------------------------------------------------------------------
(* SpecMain: one run of main().  The file system (which directories exist) *)
(* is fixed when the run starts; pc is the statement about to run.         *)

InitMain ==
    /\ EmptyProcessor
    /\ pc = "load_pharmacies"
    /\ dirs_exist \in [DirNames -> BOOLEAN]

\* The statement after a call: an exception goes to main's except clause,
\* which logs it and raises it again.
After(next) == IF result'.raised THEN "raised" ELSE next

MainLoadPharmacies ==
    /\ pc = "load_pharmacies"
    /\ \E dir \in PharmacyDirs : load_pharmacies(dir)
    /\ pc' = After("load_claims")

MainLoadClaims ==
    /\ pc = "load_claims"
    /\ \E dir \in ClaimDirs : load_claims(dir)
    /\ pc' = After("load_reverts")

MainLoadReverts ==
    /\ pc = "load_reverts"
    /\ \E dir \in RevertDirs : load_reverts(dir)
    /\ pc' = After("calculate_metrics")

MainCalculateMetrics ==
    /\ pc = "calculate_metrics"
    /\ CallCalculateMetrics
    /\ pc' = "save_metrics"

MainSaveMetrics ==
    /\ pc = "save_metrics"
    /\ save_results(result.val, "metrics_output.json")
    /\ pc' = "analyze_chain_recommendations"

MainAnalyzeChains ==
    /\ pc = "analyze_chain_recommendations"
    /\ CallAnalyzeChains
    /\ pc' = "save_chain_recommendations"

MainSaveChains ==
    /\ pc = "save_chain_recommendations"
    /\ save_results(result.val, "chain_recommendations.json")
    /\ pc' = "analyze_common_quantities"

MainAnalyzeQuantities ==
    /\ pc = "analyze_common_quantities"
    /\ CallAnalyzeQuantities
    /\ pc' = "save_quantity_analysis"

MainSaveQuantities ==
    /\ pc = "save_quantity_analysis"
    /\ save_results(result.val, "quantity_analysis.json")
    /\ pc' = "done"

NextMain ==
    \/ MainLoadPharmacies
    \/ MainLoadClaims
    \/ MainLoadReverts
    \/ MainCalculateMetrics
    \/ MainSaveMetrics
    \/ MainAnalyzeChains
    \/ MainSaveChains
    \/ MainAnalyzeQuantities
    \/ MainSaveQuantities

SpecMain == InitMain /\ [][NextMain]_vars

-----------------------------------------------------------------------------
(* SpecAnalysis: the three analyses as functions of the stores.  The       *)
(* stores are drawn from three families of inputs; every claim drawn is of *)
(* an npi of the pharmacies drawn.                                         *)

\* calculate_metrics: claims of two ids and two pharmacies, reverts naming
\* the two ids and an id no claim has.
MetricPharmacies == <<1, 2>>
MetricClaims == {Claim(id, npi, 1, JInt(2), JInt(1)) : id \in 1..2, npi \in 1..2}
MetricReverts == {Revert(1, claim_id) : claim_id \in {1, 2, 9}}

InitMetrics ==
    /\ pharmacies = MetricPharmacies
    /\ claims \in SeqsUpTo(MetricClaims, MaxInputs)
    /\ reverts \in SeqsUpTo(MetricReverts, MaxReverts)

\* analyze_chain_recommendations: three pharmacies, each its own chain or
\* the first two in one chain; of drug 1, claims of every pharmacy with the
\* unit prices 2, 1 and 3, and claims of pharmacy 1 with the quantity 0 (of
\* price 2 and of price 0) and the quantity -1; of drug 2, one claim.
ChainPharmacies == {<<1, 2, 3>>, <<1, 1, 2>>}
PositiveQuantity == {<<2, 1>>, <<2, 2>>, <<3, 1>>}
NoPositiveQuantity == {<<2, 0>>, <<0, 0>>, <<2, -1>>}
ChainClaims ==
    {Claim(1, npi, 1, JInt(pq[1]), JInt(pq[2])) : npi \in 1..3, pq \in PositiveQuantity}
    \cup {Claim(1, 1, 1, JInt(pq[1]), JInt(pq[2])) : pq \in NoPositiveQuantity}
    \cup {Claim(1, 1, 2, JInt(2), JInt(1))}

InitChains ==
    /\ pharmacies \in ChainPharmacies
    /\ claims \in SeqsUpTo(ChainClaims, MaxInputs)
    /\ reverts = <<>>

\* analyze_common_quantities: claims of drug 1 with the quantities 1..k,
\* then claims of drug 1 or 2 with the quantity 1, 2, "2" or 1.5.
QuantityPharmacies == <<1>>
DistinctPrefix(k) == [i \in 1..k |-> Claim(1, 1, 1, JInt(2), JInt(i))]
QuantityClaims ==
    {Claim(1, 1, ndc, JInt(2), q) :
        ndc \in 1..2, q \in {JInt(1), JInt(2), JIntStr(2), JReal(3)}}

InitQuantities ==
    /\ pharmacies = QuantityPharmacies
    /\ \E k \in 0..MaxDistinct : \E extra \in SeqsUpTo(QuantityClaims, MaxExtra) :
           claims = DistinctPrefix(k) \o extra
    /\ reverts = <<>>

InitAnalysis ==
    /\ InitMetrics \/ InitChains \/ InitQuantities
    /\ valid_npis = DOMAIN pharmacies
    /\ result = NoResult
    /\ divisors = {}
    /\ written = {}
    /\ pc = "api"
    /\ dirs_exist = [d \in DirNames |-> TRUE]

NextAnalysis ==
    \/ CalculateMetrics
    \/ AnalyzeChains
    \/ AnalyzeQuantities

SpecAnalysis == InitAnalysis /\ [][NextAnalysis]_vars

-----------------------------------------------------------------------------
(* Properties.                                                             *)

IsMetrics == result.op = "calculate_metrics"
IsChains == result.op = "analyze_chain_recommendations"
IsQuantities == result.op = "analyze_common_quantities"

KeyOf(r) == <<r.npi, r.ndc>>

RECURSIVE SumFills(_, _)
SumFills(rs, n) == IF n = 0 THEN 0 ELSE rs[n].fills + SumFills(rs, n - 1)

\* C1: the fills of the records calculate_metrics returns add up to the
\* number of admitted claims, and each admitted claim is counted in exactly
\* one record: a record's fills is the number of admitted claims of its
\* (npi, ndc), and every admitted claim has exactly one record of its key.
C1_FillsCountEveryClaimOnce ==
    IsMetrics =>
        /\ SumFills(result.val, Len(result.val)) = Len(claims)
        /\ \A i \in DOMAIN result.val :
               result.val[i].fills =
                   Cardinality({j \in DOMAIN claims : KeyOf(claims[j]) = KeyOf(result.val[i])})
        /\ \A j \in DOMAIN claims :
               Cardinality({i \in DOMAIN result.val :
                                KeyOf(result.val[i]) = KeyOf(claims[j])}) = 1

\* Metrics of at least two keys, one of them with two claims.
C1_Witness ==
    /\ IsMetrics
    /\ Len(result.val) >= 2
    /\ \E i \in DOMAIN result.val : result.val[i].fills >= 2

\* C2: calculate_metrics returns one record per distinct (npi, ndc) of the
\* admitted claims, no key twice, in strictly ascending (npi, ndc) order.
C2_OneRecordPerKeySorted ==
    IsMetrics =>
        /\ {KeyOf(result.val[i]) : i \in DOMAIN result.val}
               = {KeyOf(claims[j]) : j \in DOMAIN claims}
        /\ \A i, j \in DOMAIN result.val :
               i < j => KeyLess(KeyOf(result.val[i]), KeyOf(result.val[j]))

\* Metrics of two keys whose claims were admitted in descending key order,
\* the greater key having the smaller ndc.
C2_Witness ==
    /\ IsMetrics
    /\ Len(result.val) >= 2
    /\ KeyLess(KeyOf(claims[Len(claims)]), KeyOf(claims[1]))
    /\ claims[Len(claims)].ndc > claims[1].ndc

\* C3: every admitted claim's npi is a key of self.pharmacies (and in
\* valid_npis), so no claim of an unknown npi is in any output: every
\* metrics record is of a known npi, and both analyses use every admitted
\* claim and nothing else.
C3_AdmittedNpiKnown ==
    /\ \A j \in DOMAIN claims :
           claims[j].npi \in DOMAIN pharmacies /\ claims[j].npi \in valid_npis
    /\ IsMetrics => \A i \in DOMAIN result.val : result.val[i].npi \in DOMAIN pharmacies
    /\ Len(ChainRows(claims, pharmacies)) = Len(claims)
    /\ Len(QuantityRows(claims, pharmacies)) = Len(claims)
    /\ result.op = "load_claims" =>
           \A k \in DOMAIN result.log :
               result.log[k].admitted + result.log[k].unknown <= result.log[k].records

\* load_claims has just dropped a valid claim for its npi and admitted
\* another claim of the same file, whose pass raised nothing.
C3_Witness ==
    /\ result.op = "load_claims"
    /\ \E k \in DOMAIN result.log :
           /\ ~result.log[k].error
           /\ result.log[k].unknown >= 1
           /\ result.log[k].admitted >= 1

\* C4: _validate_revert returns no true value for any revert, complete or
\* not; self.reverts is empty; every metrics record has reverted = 0.
C4_NoRevertAdmitted ==
    /\ \A f \in RevertFiles : \A i \in DOMAIN f.records :
           f.records[i].kind = "object" => ~Truthy(_validate_revert(f.records[i]))
    /\ reverts = <<>>
    /\ result.op = "load_reverts" => \A k \in DOMAIN result.log : result.log[k].admitted = 0
    /\ IsMetrics => \A i \in DOMAIN result.val : result.val[i].reverted = 0

\* load_reverts has just read, without error, a file of complete reverts
\* that name the id of an admitted claim.
C4_Witness ==
    /\ result.op = "load_reverts"
    /\ \E k \in DOMAIN result.log : ~result.log[k].error /\ result.log[k].records >= 3
    /\ \E j \in DOMAIN claims : claims[j].id = 1

\* C7, as claimed: a claims file whose pass raised has none of its records
\* admitted, and every file of the directory was passed over.
C7_FailedFileAdmitsNothing ==
    (result.op = "load_claims" /\ ~result.raised) =>
        /\ Len(result.log) = result.listed
        /\ \A k \in DOMAIN result.log :
               result.log[k].error => result.log[k].admitted = 0

-----------------------------------------------------------------------------
(* Properties of main().                                                   *)

LoadStages == {"load_pharmacies", "load_claims", "load_reverts"}

\* C8: with an input directory missing, the run never passes the load of
\* that directory, writes no output file and can only end raised; an output
\* file is written only once the three loads have returned.
C8_MissingDirectoryWritesNothing ==
    /\ ~dirs_exist["pharmacy"] => pc \in {"load_pharmacies", "raised"}
    /\ ~dirs_exist["claims"] => pc \in {"load_pharmacies", "load_claims", "raised"}
    /\ ~dirs_exist["reverts"] => pc \in LoadStages \cup {"raised"}
    /\ (\E d \in DirNames : ~dirs_exist[d]) => written = {}
    /\ written # {} => pc \notin LoadStages \cup {"raised"}
    /\ pc = "raised" => result.raised /\ written = {}

\* The run raised at load_reverts, after claims were admitted.
C8_Witness ==
    /\ pc = "raised"
    /\ result.op = "load_reverts"
    /\ claims # <<>>
    /\ written = {}

-----------------------------------------------------------------------------
(* Properties of the analyses.                                             *)

\* C5: in every record calculate_metrics returns, reverted <= fills,
\* whatever the admitted claims and the admitted reverts.
C5_RevertedAtMostFills ==
    IsMetrics => \A i \in DOMAIN result.val : result.val[i].reverted <= result.val[i].fills

\* Metrics computed with two reverts naming the id of one admitted claim and
\* a revert naming an id no admitted claim has; some record has a revert.
C5_Witness ==
    /\ IsMetrics
    /\ \E a, b \in DOMAIN reverts :
           /\ a < b
           /\ reverts[a].claim_id = reverts[b].claim_id
           /\ \E j \in DOMAIN claims : claims[j].id = reverts[a].claim_id
    /\ \E a \in DOMAIN reverts : \A j \in DOMAIN claims : claims[j].id # reverts[a].claim_id
    /\ \E i \in DOMAIN result.val : result.val[i].reverted >= 1

\* C6, as claimed: every quantity that calculate_metrics or
\* analyze_chain_recommendations divides a price by is > 0, and a claim of
\* quantity <= 0 has the unit price 0.
C6_DivisorsPositive ==
    /\ (IsMetrics \/ IsChains) => \A q \in divisors : q > 0
    /\ IsChains =>
           LET rows == ChainRows(claims, pharmacies) IN
           \A i \in DOMAIN rows :
               rows[i].quantity <= 0 => UnitPrices(rows)[i] = Rat(0, 1)

\* The part of C6 that is about calculate_metrics alone.
C6_MetricsDivisorsPositive == IsMetrics => \A q \in divisors : q > 0

\* The chains with admitted claims of a drug, and a chain's mean unit price.
ChainsOfDrug(ndc) ==
    {pharmacies[claims[j].npi] : j \in {k \in DOMAIN claims : claims[k].ndc = ndc}}

MeanOf(ndc, chain) == SeriesMean(GroupPrices(ChainRows(claims, pharmacies), ndc, chain))

\* C9: each drug's chain list has min(k, 2) entries, k the number of chains
\* with admitted claims of the drug; the entries are distinct chains of the
\* drug, none of the chains left out has a lower mean unit price than a
\* listed one, and the list ascends by mean unit price (a mean that is nan,
\* from 0 / 0, counts as the greatest); the price reported is the mean,
\* rounded.
C9_TwoCheapestChainsAscending ==
    IsChains =>
        \A i \in DOMAIN result.val :
            LET r == result.val[i]
                all == ChainsOfDrug(r.ndc)
                listed == {r.chain[e].name : e \in DOMAIN r.chain}
            IN /\ Len(r.chain) = Min(Cardinality(all), 2)
               /\ listed \subseteq all
               /\ Cardinality(listed) = Len(r.chain)
               /\ \A a \in listed : \A b \in all \ listed :
                      ~SortsBefore(MeanOf(r.ndc, b), MeanOf(r.ndc, a))
               /\ \A e \in 1..(Len(r.chain) - 1) :
                      ~SortsBefore(MeanOf(r.ndc, r.chain[e + 1].name),
                                   MeanOf(r.ndc, r.chain[e].name))
               /\ \A e \in DOMAIN r.chain :
                      r.chain[e].avg_price = RoundExt(MeanOf(r.ndc, r.chain[e].name))

\* A drug with three chains, the chain of the greatest name the cheapest and
\* the chain of the least name, the dearest, left out.
C9_Witness ==
    /\ IsChains
    /\ Cardinality(ChainsOfDrug(1)) = 3
    /\ result.val[1].chain[1].name = 3
    /\ result.val[1].chain[2].name = 2
    /\ SortsBefore(MeanOf(1, 3), MeanOf(1, 2))
    /\ SortsBefore(MeanOf(1, 2), MeanOf(1, 1))
    /\ MeanOf(1, 1).k = "fin"

\* The quantity values (floats, in halves) of the admitted claims of a drug,
\* and how many of the drug's claims have a value.
QuantitiesOfDrug(ndc) ==
    {PyFloat(claims[j].quantity).v : j \in {k \in DOMAIN claims : claims[k].ndc = ndc}}

CountOf(ndc, q) ==
    Cardinality({j \in DOMAIN claims :
                     claims[j].ndc = ndc /\ PyFloat(claims[j].quantity).v = q})

\* C10: each drug's most_prescribed_quantity has min(d, 5) entries, d the
\* number of distinct quantity values of the drug's admitted claims; the
\* entries are distinct values of the drug, in non-increasing frequency, and
\* no value left out is more frequent than a listed one.
C10_FiveMostFrequentQuantities ==
    IsQuantities =>
        \A i \in DOMAIN result.val :
            LET r == result.val[i]
                top == r.most_prescribed_quantity
                all == QuantitiesOfDrug(r.ndc)
            IN /\ Len(top) = Min(Cardinality(all), 5)
               /\ Range(top) \subseteq all
               /\ \A a, b \in DOMAIN top :
                      a < b => /\ top[a] # top[b]
                               /\ CountOf(r.ndc, top[a]) >= CountOf(r.ndc, top[b])
               /\ \A v \in all \ Range(top) : \A u \in Range(top) :
                      CountOf(r.ndc, v) <= CountOf(r.ndc, u)

\* A drug with more than five quantity values, of different frequencies, the
\* most frequent not the first seen; a second drug in the result.
C10_Witness ==
    /\ IsQuantities
    /\ Len(result.val) = 2
    /\ Cardinality(QuantitiesOfDrug(1)) > 5
    /\ Len(result.val[1].most_prescribed_quantity) = 5
    /\ CountOf(1, result.val[1].most_prescribed_quantity[1]) >= 2
    /\ result.val[1].most_prescribed_quantity[1] # PyFloat(claims[1].quantity).v

=============================================================================
